---- MODULE Spec2Model ----
(***************************************************************************)
(* The local daemon bootstrapper of the wallet                             *)
(* (app/scripts/Daemon/Bootstrap.js) together with the part of the         *)
(* application controller that waits on it (app/scripts/Global/AppCtrl.js).*)
(*                                                                         *)
(* One supervisor object lives for one application session.  Every         *)
(* function that runs to completion on the event loop is one action; the   *)
(* callbacks it leaves behind (store operations, timers, child-process     *)
(* events, the chmod command) are separate actions that run later.         *)
(***************************************************************************)
EXTENDS Integers, Sequences, FiniteSets, TLC

(***************************************************************************)
(* Bounds of the model.                                                    *)
(***************************************************************************)
\* number of startLocal() calls explored in one session
MaxStarts == 2
\* store operations that fail in one session
MaxIoFailures == 1
\* published activity events are counted modulo this number
ActivityWrap == 2

(***************************************************************************)
(* Program constants.                                                      *)
(***************************************************************************)
\* $timeout(..., 1500)
GraceDelay == 1500
\* setInterval(..., 15 * 1000)
ActivityInterval == 15000

\* self.daemon.pid of a child process whose launch failed (undefined)
NoPid == 0
\* pid of the k-th child process launched in this session
NewPid(k) == k
\* pid recorded in the store by an earlier session
StalePid == MaxStarts + 1
Pids == 1..(MaxStarts + 1)

\* this.daemon = null
NullDaemon == [spawned |-> FALSE, pid |-> NoPid]

(***************************************************************************)
(* Host environment: os.platform(), os.arch(), the files on disk.          *)
(***************************************************************************)
Platforms == {"linux", "win32", "darwin", "sunos"}
Archs == {"x32", "x64", "ia32", "arm64"}

\* this.daemonMap
daemonMap ==
    [linux  |-> [x32 |-> "daemons/reddcoind-linux32",
                 x64 |-> "daemons/reddcoind-linux64",
                 default |-> "daemons/reddcoind-linux32"],
     win32  |-> [x32 |-> "daemons/reddcoind-win32",
                 default |-> "daemons/reddcoind-win32"],
     darwin |-> [x32 |-> "daemons/reddcoind-mac32",
                 x64 |-> "daemons/reddcoind-mac32",
                 default |-> "daemons/reddcoind-mac-32"]]

\* the values daemonFilePath can take; NullPath is its initial null
NullPath == "null"
ShippedPaths == {"daemons/reddcoind-linux32", "daemons/reddcoind-linux64",
                 "daemons/reddcoind-win32", "daemons/reddcoind-mac32"}
AllPaths == ShippedPaths \cup {"daemons/reddcoind-mac-32"}
\* the disks explored: nothing installed, the named binaries, every path
DiskChoices == {{}, ShippedPaths, AllPaths}
\* the hosts a session is followed on
Hosts == {<<"linux", "x64">>, <<"win32", "x32">>, <<"darwin", "arm64">>,
          <<"sunos", "x64">>}

VARIABLES
    osPlatform,      \* os.platform()
    osArch,          \* os.arch()
    fsFiles,         \* paths for which fs.existsSync is true
    execPerm,        \* the daemon executable carries execute permission
    procs,           \* operating-system processes: pid -> "none" | "running" |
                     \* "signalled" (running, SIGTERM delivered) | "exited"
    daemonFilePath,  \* this.daemonFilePath
    daemon,          \* this.daemon
    children,        \* pids of the child handles listeners were attached to
    deferred,        \* this.deferred
    observed,        \* the outcomes the promise has handed to its waiters
    bootstrapped,    \* codes broadcast as 'daemon.bootstrapped'
    store,           \* the 'daemon' documents of the settings collection
    startupStore,    \* those documents as the session found them
    nextId,          \* next _id the collection hands out
    dbQueue,         \* store operations issued and not yet executed
    ioFailures,      \* store operations that have failed
    chmodPending,    \* chmod commands started and not yet finished
    graceTimers,     \* $timeout callbacks not yet run
    graceFired,      \* $timeout callbacks that have run
    intervals,       \* setInterval timers running
    activity,        \* 'daemon.notifications.block' events published
    closeListeners,  \* listeners registered on the window's 'close'
    winClosed,       \* the window has closed (the session is over)
    exitObserved,    \* pids whose 'close' handler has run
    log,             \* kinds of lines written by handlers that only log
    starts,          \* startLocal() calls made
    spawns,          \* childProcess.spawn calls made
    reaped,          \* killExistingPid lookups whose callback has run
    killAttempts,    \* process.kill calls made by killExistingPid
    app              \* AppCtrl: $scope.daemon.running, the listener on
                     \* 'daemon.notifications.block', fetchOverview called

vars == <<osPlatform, osArch, fsFiles, execPerm, procs, daemonFilePath,
          daemon, children, deferred, observed, bootstrapped, store, startupStore, nextId,
          dbQueue, ioFailures, chmodPending, graceTimers, graceFired, intervals,
          activity, closeListeners, winClosed, exitObserved, log, starts,
          spawns, reaped, killAttempts, app>>

\* what a session finds and does not change: the host and its disk stay as
\* they are for the length of a session
envVars == <<osPlatform, osArch, fsFiles, startupStore>>
dbVars == <<store, nextId, dbQueue, ioFailures>>
timerVars == <<graceTimers, graceFired, intervals>>
histVars == <<starts, spawns, reaped, killAttempts>>

(***************************************************************************)
(* App.Global.Message(result, code, message)                               *)
(***************************************************************************)
Message(result, code, message) ==
    [result |-> result, code |-> code, message |-> message]

MsgUnsupported ==
    Message(FALSE, 1,
        <<"This operating system does not support running the Reddcoin daemon.">>)
MsgNotFound ==
    Message(FALSE, 2,
        <<"Cannot find the daemon for this operating system: ", osPlatform, " ", osArch>>)
MsgPreChecksComplete == Message(TRUE, 0, <<"Pre-checks complete">>)
MsgDaemonReady == Message(TRUE, 0, <<"Daemon Ready">>)

(***************************************************************************)
(* $q.defer(): a deferred settles at most once; resolve and reject on a    *)
(* settled deferred do nothing.  The field settled counts the settlements  *)
(* that took effect.                                                       *)
(***************************************************************************)
NoMessage == Message(FALSE, -1, <<>>)
NewDeferred == [state |-> "pending", value |-> NoMessage, settled |-> 0]

Settle(d, how, message) ==
    IF d.state = "pending"
    THEN [state |-> how, value |-> message, settled |-> d.settled + 1]
    ELSE d

Resolve(d, message) == Settle(d, "resolved", message)
Reject(d, message) == Settle(d, "rejected", message)

(***************************************************************************)
(* Pre-flight.                                                             *)
(***************************************************************************)
\* hasValidDaemon
HasValidDaemon == osPlatform \in DOMAIN daemonMap

\* isWindows
IsWindows == osPlatform = "win32"

\* initializeFilePath without the fallback to the default entry
InitializeFilePathNoFallback(path) ==
    LET platform == daemonMap[osPlatform]
    IN  IF osArch \in DOMAIN platform THEN platform[osArch] ELSE path

\* initializeFilePath: the value of this.daemonFilePath after the call,
\* path being its value before
InitializeFilePath(path) ==
    IF osPlatform \in DOMAIN daemonMap
    THEN LET platform == daemonMap[osPlatform]
         IN  IF osArch \notin DOMAIN platform
             THEN platform["default"]
             ELSE platform[osArch]
    ELSE path

\* this.daemonFilePath after runPreChecks
PathAfterPreChecks(path) ==
    IF HasValidDaemon THEN InitializeFilePath(path) ELSE path

\* runPreChecks without the fs.existsSync check
RunPreChecksSkipsExistence(path) ==
    IF ~HasValidDaemon THEN MsgUnsupported ELSE MsgPreChecksComplete

\* runPreChecks looking for the file before it looks at the platform
RunPreChecksExistenceFirst(path) ==
    IF PathAfterPreChecks(path) \notin fsFiles
    THEN MsgNotFound
    ELSE IF ~HasValidDaemon THEN MsgUnsupported ELSE MsgPreChecksComplete

\* runPreChecks: the message returned
RunPreChecks(path) ==
    IF ~HasValidDaemon
    THEN MsgUnsupported
    ELSE IF PathAfterPreChecks(path) \notin fsFiles
         THEN MsgNotFound
         ELSE MsgPreChecksComplete

(***************************************************************************)
(* Lines written by debug() in the handlers that do nothing else; what the *)
(* other handlers write goes with an effect another variable records.      *)
(***************************************************************************)
LogStderr == "Received daemon error from 'stderr'"
LogKillError == "process.kill error"

(***************************************************************************)
(* The settings collection executes the operations issued on it one at a   *)
(* time, in the order they were issued, and calls each operation's         *)
(* callback when the operation has run.                                    *)
(***************************************************************************)
DbOp(op, cb, id, pid) == [op |-> op, cb |-> cb, id |-> id, pid |-> pid]
FindOneForKill == DbOp("findOne", "kill", 0, NoPid)
FindOneForSave == DbOp("findOne", "save", 0, NoPid)
InsertOp(pid) == DbOp("insert", "none", 0, pid)
UpdateOp(id, pid) == DbOp("update", "none", id, pid)
RemoveOp == DbOp("remove", "none", 0, NoPid)

NullDoc == [id |-> 0, pid |-> NoPid]

\* the documents findOne({type: 'daemon'}) can hand to its callback
FoundDocs(failed) ==
    IF failed \/ store = {} THEN {NullDoc} ELSE store

Running(pid) == pid # NoPid /\ procs[pid] \in {"running", "signalled"}

\* process.kill(pid) throws unless pid names a running process
KillThrows(pid) == ~Running(pid)

\* the processes after SIGTERM is delivered to a running pid
Signalled(pid) == [procs EXCEPT ![pid] = "signalled"]

(***************************************************************************)
(* AppCtrl, the waiter on the promise (Global/AppCtrl.js).                 *)
(***************************************************************************)
\* the controller as constructed: $scope.daemon.running is false, no
\* listener on 'daemon.notifications.block', fetchOverview not called
NewAppCtrl == [running |-> FALSE, listening |-> FALSE, fetched |-> FALSE]

\* the success callback given to getPromise().then: fetchOverview is
\* called, running set and the listener registered
AppCtrlOnReady == [running |-> TRUE, listening |-> TRUE, fetched |-> TRUE]

\* $rootScope.$emit('daemon.notifications.block'): the controller's
\* listener, once registered, calls fetchOverview
OnBlockNotification(a) ==
    IF a.listening THEN [a EXCEPT !.fetched = TRUE] ELSE a

\* the supervisor as constructed (lines 13-48), and the store and the
\* processes an earlier session may have left
Constructed ==
    /\ \E prior \in {"none", "dead", "alive"} :
          /\ store = IF prior = "none" THEN {} ELSE {[id |-> 1, pid |-> StalePid]}
          /\ startupStore = store
          /\ nextId = IF prior = "none" THEN 1 ELSE 2
          /\ procs = [p \in Pids |->
                        IF p = StalePid /\ prior = "alive" THEN "running" ELSE "none"]
    /\ daemonFilePath = NullPath
    /\ daemon = NullDaemon
    /\ children = <<>>
    /\ deferred = NewDeferred
    /\ observed = {}
    /\ bootstrapped = <<>>
    /\ dbQueue = <<>>
    /\ ioFailures = 0
    /\ chmodPending = 0
    /\ graceTimers = 0
    /\ graceFired = 0
    /\ intervals = 0
    /\ activity = 0
    /\ closeListeners = 0
    /\ winClosed = FALSE
    /\ exitObserved = {}
    /\ log = {}
    /\ starts = 0
    /\ spawns = 0
    /\ reaped = 0
    /\ killAttempts = 0
    /\ app = NewAppCtrl

Init ==
    /\ \E host \in Hosts : osPlatform = host[1] /\ osArch = host[2]
    /\ fsFiles \in {{}, ShippedPaths}
    /\ execPerm \in {b \in BOOLEAN : IsWindows => b}
    /\ Constructed

(***************************************************************************)
(* startLocal                                                              *)
(***************************************************************************)
\* runOsSpecificTasks: the number of chmod commands it starts
RunOsSpecificTasks == IF ~IsWindows THEN 1 ELSE 0

\* childProcess.spawn can produce a running child only from a file the
\* operating system lets it execute
CanLaunch == IsWindows \/ execPerm

\* the pre-flight failure branch of startLocal (lines 62-69)
StartLocalRejected(message) ==
    /\ UNCHANGED log
    /\ deferred' = Reject(deferred, message)
    /\ bootstrapped' = Append(bootstrapped, message.code)
    /\ UNCHANGED <<execPerm, procs, daemon, children, observed, dbVars,
                   chmodPending, timerVars, activity, closeListeners, winClosed,
                   exitObserved, spawns, reaped, killAttempts>>

\* the rest of startLocal, resolving the deferred without waiting for the
\* grace timer
StartLocalSpawnedResolvesAtOnce(launched) ==
    LET pid == IF launched THEN NewPid(spawns + 1) ELSE NoPid
    IN  /\ chmodPending' = chmodPending + RunOsSpecificTasks
        /\ dbQueue' = dbQueue \o <<FindOneForKill, FindOneForSave>>
        /\ daemon' = [spawned |-> TRUE, pid |-> pid]
        /\ spawns' = spawns + 1
        /\ procs' = IF launched THEN [procs EXCEPT ![pid] = "running"] ELSE procs
        /\ children' = Append(children, pid)
        /\ closeListeners' = closeListeners + 1
        /\ graceTimers' = graceTimers + 1
        /\ intervals' = intervals + 1
        /\ deferred' = Resolve(deferred, MsgDaemonReady)
        /\ UNCHANGED <<execPerm, observed, bootstrapped, store,
                       nextId, ioFailures, graceFired, activity, winClosed,
                       exitObserved, log, reaped, killAttempts>>

\* the rest of startLocal (lines 71-97); launched tells whether the
\* operating system started the executable
StartLocalSpawned(launched) ==
    LET pid == IF launched THEN NewPid(spawns + 1) ELSE NoPid
    IN  \* runOsSpecificTasks
        /\ chmodPending' = chmodPending + RunOsSpecificTasks
        \* killExistingPid, then spawnDaemon with its saveDaemonPid
        /\ dbQueue' = dbQueue \o <<FindOneForKill, FindOneForSave>>
        /\ daemon' = [spawned |-> TRUE, pid |-> pid]
        /\ spawns' = spawns + 1
        /\ procs' = IF launched THEN [procs EXCEPT ![pid] = "running"] ELSE procs
        \* setupDaemonListeners
        /\ children' = Append(children, pid)
        /\ closeListeners' = closeListeners + 1
        \* $timeout and setInterval
        /\ graceTimers' = graceTimers + 1
        /\ intervals' = intervals + 1
        /\ UNCHANGED <<execPerm, deferred, observed, bootstrapped, store,
                       nextId, ioFailures, graceFired, activity, winClosed,
                       exitObserved, log, reaped, killAttempts>>

StartLocal ==
    /\ ~winClosed
    /\ starts < MaxStarts
    /\ starts' = starts + 1
    /\ daemonFilePath' = PathAfterPreChecks(daemonFilePath)
    /\ UNCHANGED <<envVars, app>>
    /\ LET message == RunPreChecks(daemonFilePath)
       IN  IF ~message.result
           THEN StartLocalRejected(message)
           ELSE \E launched \in {b \in BOOLEAN : b => CanLaunch} :
                    StartLocalSpawned(launched)

(***************************************************************************)
(* Callbacks of the store.                                                 *)
(***************************************************************************)
\* the callback of killExistingPid signalling the pid of this.daemon in
\* place of the pid of the document found
KillExistingPidCallbackKillsCurrent(doc) ==
    IF doc = NullDoc
    THEN /\ UNCHANGED <<procs, killAttempts, log>>
         /\ dbQueue' = Tail(dbQueue)
    ELSE /\ killAttempts' = killAttempts + 1
         /\ IF KillThrows(daemon.pid)
            THEN /\ log' = log \cup {LogKillError}
                 /\ UNCHANGED procs
                 /\ dbQueue' = Tail(dbQueue)
            ELSE /\ procs' = Signalled(daemon.pid)
                 /\ dbQueue' = Append(Tail(dbQueue), RemoveOp)
                 /\ UNCHANGED log

\* the callback killExistingPid gives to findOne (lines 239-253)
KillExistingPidCallback(doc) ==
    IF doc = NullDoc
    THEN /\ UNCHANGED <<procs, killAttempts, log>>
         /\ dbQueue' = Tail(dbQueue)
    ELSE /\ killAttempts' = killAttempts + 1
         /\ IF KillThrows(doc.pid)
            THEN \* process.kill threw: the catch block only logs
                 /\ log' = log \cup {LogKillError}
                 /\ UNCHANGED procs
                 /\ dbQueue' = Tail(dbQueue)
            ELSE /\ procs' = Signalled(doc.pid)
                 /\ dbQueue' = Append(Tail(dbQueue), RemoveOp)
                 /\ UNCHANGED log

\* the callback saveDaemonPid gives to findOne (lines 214-228): the
\* operation it issues
SaveDaemonPidCallback(doc) ==
    IF doc = NullDoc
    THEN InsertOp(daemon.pid)
    ELSE UpdateOp(doc.id, daemon.pid)

\* the collection after update({_id: id}, {$set: doc})
Updated(id, pid) ==
    {IF r.id = id THEN [r EXCEPT !.pid = pid] ELSE r : r \in store}

\* the collections remove({type: 'daemon'}, {}) can leave: one matching
\* document is removed
Removed ==
    IF store = {} THEN {store} ELSE {store \ {r} : r \in store}

\* the collection runs the oldest operation issued
DbExec ==
    /\ ~winClosed
    /\ dbQueue # <<>>
    /\ \E failed \in {b \in BOOLEAN : b => ioFailures < MaxIoFailures} :
       LET o == Head(dbQueue)
       IN  /\ ioFailures' = ioFailures + (IF failed THEN 1 ELSE 0)
           /\ CASE o.op = "findOne" /\ o.cb = "kill" ->
                     /\ \E doc \in FoundDocs(failed) : KillExistingPidCallback(doc)
                     /\ reaped' = reaped + 1
                     /\ UNCHANGED <<store, nextId>>
                [] o.op = "findOne" /\ o.cb = "save" ->
                     /\ \E doc \in FoundDocs(failed) :
                           dbQueue' = Append(Tail(dbQueue), SaveDaemonPidCallback(doc))
                     /\ UNCHANGED <<store, nextId, reaped, procs, killAttempts, log>>
                [] o.op = "insert" ->
                     /\ store' = IF failed THEN store
                                 ELSE store \cup {[id |-> nextId, pid |-> o.pid]}
                     /\ nextId' = IF failed THEN nextId ELSE nextId + 1
                     /\ dbQueue' = Tail(dbQueue)
                     /\ UNCHANGED <<reaped, procs, killAttempts, log>>
                [] o.op = "update" ->
                     /\ store' = IF failed THEN store ELSE Updated(o.id, o.pid)
                     /\ dbQueue' = Tail(dbQueue)
                     /\ UNCHANGED <<nextId, reaped, procs, killAttempts, log>>
                [] o.op = "remove" ->
                     /\ store' \in (IF failed THEN {store} ELSE Removed)
                     /\ dbQueue' = Tail(dbQueue)
                     /\ UNCHANGED <<nextId, reaped, procs, killAttempts, log>>
    /\ UNCHANGED <<envVars, app, execPerm, daemonFilePath, daemon, children,
                   deferred, observed, bootstrapped, chmodPending, timerVars,
                   activity, closeListeners, winClosed, exitObserved, starts, spawns>>

(***************************************************************************)
(* Timers.                                                                 *)
(***************************************************************************)
\* the $timeout callback, resolving only when the daemon is seen running
GraceTimerFireIfDaemonRuns ==
    /\ ~winClosed
    /\ graceTimers > 0
    /\ graceTimers' = graceTimers - 1
    /\ graceFired' = graceFired + 1
    /\ bootstrapped' = Append(bootstrapped, MsgDaemonReady.code)
    /\ deferred' = IF Running(daemon.pid) THEN Resolve(deferred, MsgDaemonReady)
                   ELSE deferred
    /\ UNCHANGED <<envVars, app, execPerm, procs, daemonFilePath, daemon, children,
                   observed, dbVars, chmodPending, intervals, activity,
                   closeListeners, winClosed, exitObserved, log, histVars>>

\* the $timeout callback of startLocal (lines 80-87)
GraceTimerFire ==
    /\ ~winClosed
    /\ graceTimers > 0
    /\ graceTimers' = graceTimers - 1
    /\ graceFired' = graceFired + 1
    /\ bootstrapped' = Append(bootstrapped, MsgDaemonReady.code)
    /\ deferred' = Resolve(deferred, MsgDaemonReady)
    /\ UNCHANGED <<envVars, app, execPerm, procs, daemonFilePath, daemon, children,
                   observed, dbVars, chmodPending, intervals, activity,
                   closeListeners, winClosed, exitObserved, log, histVars>>

\* one more event published, counted modulo ActivityWrap
Published == (activity + 1) % ActivityWrap

\* the setInterval callback, broadcasting only while the daemon runs
IntervalTickIfDaemonRuns ==
    /\ ~winClosed
    /\ intervals > 0
    /\ graceFired > 0 \/ ActivityInterval <= GraceDelay
    /\ Running(daemon.pid)
    /\ activity' = Published
    /\ app' = OnBlockNotification(app)
    /\ UNCHANGED <<envVars, execPerm, procs, daemonFilePath, daemon, children,
                   deferred, observed, bootstrapped, dbVars, chmodPending, timerVars,
                   closeListeners, winClosed, exitObserved, log, histVars>>

\* the setInterval callback running with no regard to the grace timer, as
\* with an interval shorter than the grace delay
IntervalTickBeforeGrace ==
    /\ ~winClosed
    /\ intervals > 0
    /\ activity' = Published
    /\ app' = OnBlockNotification(app)
    /\ UNCHANGED <<envVars, execPerm, procs, daemonFilePath, daemon, children,
                   deferred, observed, bootstrapped, dbVars, chmodPending, timerVars,
                   closeListeners, winClosed, exitObserved, log, histVars>>

\* the setInterval callback of startLocal (lines 93-95).  A call's interval
\* and its grace timer are started together, so the timer with the shorter
\* delay runs first.
IntervalTick ==
    /\ ~winClosed
    /\ intervals > 0
    /\ graceFired > 0 \/ ActivityInterval <= GraceDelay
    /\ activity' = Published
    /\ app' = OnBlockNotification(app)
    /\ UNCHANGED <<envVars, execPerm, procs, daemonFilePath, daemon, children,
                   deferred, observed, bootstrapped, dbVars, chmodPending, timerVars,
                   closeListeners, winClosed, exitObserved, log, histVars>>

(***************************************************************************)
(* Listeners attached by setupDaemonListeners.                             *)
(***************************************************************************)
\* daemon.stdout 'data' (lines 106-109)
OnStdoutData(k) ==
    /\ ~winClosed
    /\ Running(children[k])
    /\ activity' = Published
    /\ app' = OnBlockNotification(app)
    /\ UNCHANGED <<envVars, execPerm, procs, daemonFilePath, daemon, children,
                   deferred, observed, bootstrapped, dbVars, chmodPending, timerVars,
                   closeListeners, winClosed, exitObserved, log, histVars>>

\* daemon.stderr 'error' (lines 111-113)
OnStderrError(k) ==
    /\ ~winClosed
    /\ Running(children[k])
    /\ log' = log \cup {LogStderr}
    /\ UNCHANGED <<envVars, app, execPerm, procs, daemonFilePath, daemon, children,
                   deferred, observed, bootstrapped, dbVars, chmodPending, timerVars,
                   activity, closeListeners, winClosed, exitObserved, histVars>>

\* daemon 'close' clearing the record of the pid that has exited
OnDaemonCloseRemovesRecord(k) ==
    /\ ~winClosed
    /\ children[k] # NoPid
    /\ procs[children[k]] = "exited"
    /\ children[k] \notin exitObserved
    /\ exitObserved' = exitObserved \cup {children[k]}
    /\ dbQueue' = Append(dbQueue, RemoveOp)
    /\ UNCHANGED <<envVars, app, execPerm, procs, daemonFilePath, daemon, children,
                   deferred, observed, bootstrapped, store, nextId, ioFailures,
                   chmodPending, timerVars, activity, closeListeners, winClosed,
                   log, histVars>>

\* daemon 'close' (lines 124-126)
OnDaemonClose(k) ==
    /\ ~winClosed
    /\ children[k] # NoPid
    /\ procs[children[k]] = "exited"
    /\ children[k] \notin exitObserved
    /\ exitObserved' = exitObserved \cup {children[k]}
    /\ UNCHANGED <<envVars, app, execPerm, procs, daemonFilePath, daemon, children,
                   deferred, observed, bootstrapped, dbVars, chmodPending, timerVars,
                   activity, closeListeners, winClosed, log, histVars>>

\* ChildProcess.kill(signal) signals the child if it is still running; it
\* does not throw and takes no callback
ChildKill(handle) ==
    IF Running(handle.pid) THEN Signalled(handle.pid) ELSE procs

\* win 'close' (lines 116-122); with no listener registered the window
\* just closes
WinClose ==
    /\ ~winClosed
    /\ procs' = IF closeListeners > 0 THEN ChildKill(daemon) ELSE procs
    /\ winClosed' = TRUE
    /\ UNCHANGED <<envVars, app, execPerm, daemonFilePath, daemon, children,
                   deferred, observed, bootstrapped, dbVars, chmodPending, timerVars,
                   activity, closeListeners, exitObserved, log, histVars>>

(***************************************************************************)
(* The operating system.                                                   *)
(***************************************************************************)
\* a running process ends, on a signal or on its own
ProcExit(pid) ==
    /\ Running(pid)
    /\ procs' = [procs EXCEPT ![pid] = "exited"]
    /\ UNCHANGED <<envVars, app, execPerm, daemonFilePath, daemon, children,
                   deferred, observed, bootstrapped, dbVars, chmodPending, timerVars,
                   activity, closeListeners, winClosed, exitObserved, log, histVars>>

\* the chmod command started by runOsSpecificTasks (line 172) finishes
ChmodDone ==
    /\ chmodPending > 0
    /\ chmodPending' = chmodPending - 1
    /\ \E ok \in BOOLEAN : execPerm' = (execPerm \/ ok)
    /\ UNCHANGED <<envVars, app, procs, daemonFilePath, daemon, children, deferred,
                   observed, bootstrapped, dbVars, timerVars, activity,
                   closeListeners, winClosed, exitObserved, log, histVars>>

(***************************************************************************)
(* Waiters on the promise.                                                 *)
(***************************************************************************)
\* getPromise().then(...) calling the waiter's one callback back on
\* rejection as on success
GetPromiseCallsBackOnReject ==
    /\ ~winClosed
    /\ deferred.state # "pending"
    /\ observed' = observed \cup {[state |-> deferred.state, value |-> deferred.value]}
    /\ app' = AppCtrlOnReady
    /\ UNCHANGED <<envVars, execPerm, procs, daemonFilePath, daemon, children,
                   deferred, bootstrapped, dbVars, chmodPending, timerVars, activity,
                   closeListeners, winClosed, exitObserved, log, histVars>>

\* getPromise().then(...): a waiter, registered before or after the
\* settlement, is called back with the outcome the deferred holds; the
\* waiter is AppCtrl, which gives then() a success callback only
\* (AppCtrl.js lines 38-44)
GetPromise ==
    /\ ~winClosed
    /\ deferred.state # "pending"
    /\ observed' = observed \cup {[state |-> deferred.state, value |-> deferred.value]}
    /\ app' = IF deferred.state = "resolved" THEN AppCtrlOnReady ELSE app
    /\ UNCHANGED <<envVars, execPerm, procs, daemonFilePath, daemon, children,
                   deferred, bootstrapped, dbVars, chmodPending, timerVars, activity,
                   closeListeners, winClosed, exitObserved, log, histVars>>

Next ==
    \/ StartLocal
    \/ DbExec
    \/ GraceTimerFire
    \/ IntervalTick
    \/ \E k \in 1..Len(children) : OnStdoutData(k)
    \/ \E k \in 1..Len(children) : OnStderrError(k)
    \/ \E k \in 1..Len(children) : OnDaemonClose(k)
    \/ WinClose
    \/ \E pid \in Pids : ProcExit(pid)
    \/ ChmodDone
    \/ GetPromise

Spec == Init /\ [][Next]_vars

\* pre-flight and path resolution on every host: startLocal alone, from
\* every platform, architecture and disk
PreflightInit ==
    /\ osPlatform \in Platforms
    /\ osArch \in Archs
    /\ fsFiles \in DiskChoices
    /\ execPerm \in {b \in BOOLEAN : IsWindows => b}
    /\ Constructed

PreflightSpec == PreflightInit /\ [][StartLocal]_vars

\* the event loop runs every timer callback that is due
FairSpec == Spec /\ WF_vars(GraceTimerFire) /\ WF_vars(IntervalTick)

(***************************************************************************)
(* Properties.                                                             *)
(***************************************************************************)
SupportedPlatforms == {"linux", "win32", "darwin"}

\* startLocal has run and its pre-flight cannot have passed: the platform
\* is not supported, or the path resolved is not on the disk
PreflightFailed ==
    /\ starts > 0
    /\ osPlatform \notin SupportedPlatforms \/ daemonFilePath \notin fsFiles

\* startLocal has run and its pre-flight has passed
PreflightPassed ==
    /\ starts > 0
    /\ osPlatform \in SupportedPlatforms
    /\ daemonFilePath \in fsFiles

\* nothing beyond the rejection has been started
NothingStarted ==
    /\ spawns = 0 /\ daemon = NullDaemon /\ children = <<>>
    /\ \A pid \in Pids : pid # StalePid => procs[pid] = "none"
    /\ killAttempts = 0 /\ reaped = 0
    /\ dbQueue = <<>> /\ store = startupStore /\ ioFailures = 0
    /\ chmodPending = 0
    /\ graceTimers = 0 /\ graceFired = 0 /\ intervals = 0 /\ activity = 0
    /\ closeListeners = 0

\* C1: when pre-flight fails (platform not supported, or executable not on
\* the disk), startLocal spawns nothing, attempts no kill, leaves the store
\* and its queue of operations untouched and starts neither timer, in that
\* call and in every later step of the session.
C1_PreflightFailureStartsNothing ==
    /\ [](PreflightFailed => NothingStarted)
    /\ [][PreflightFailed =>
            /\ store' = store /\ dbQueue' = dbQueue /\ nextId' = nextId
            /\ spawns' = spawns /\ killAttempts' = killAttempts
            /\ graceTimers' = graceTimers /\ intervals' = intervals]_vars

\* startLocal was called twice on a host whose executable is missing, and
\* the window is still open
C1_Witness ==
    /\ PreflightFailed /\ starts = 2 /\ ~winClosed
    /\ osPlatform = "darwin" /\ startupStore # {}
    /\ deferred.state = "rejected"

\* C2: if a record exists at startup, the lookup of killExistingPid and its
\* kill attempt have completed before the new daemon is spawned: every
\* spawn has its call's reaping behind it.
C2_ReapingCompletesBeforeSpawn ==
    startupStore # {} => spawns <= reaped

\* C3: after a successful spawn by the one startLocal call of a session,
\* once the store has run every operation of that call without a failure,
\* the store holds exactly one record and its pid is the pid of the
\* process spawned, whether or not a record existed at startup.
C3_OneRecordWithNewPid ==
    (/\ starts = 1 /\ spawns = 1 /\ daemon.pid # NoPid
     /\ dbQueue = <<>> /\ reaped = 1 /\ ioFailures = 0 /\ ~winClosed)
    => /\ Cardinality(store) = 1
       /\ \A r \in store : r.pid = daemon.pid

RemovesQueued(q) == Len(SelectSeq(q, LAMBDA o : o.op = "remove"))

\* C4: whenever killExistingPid attempts to kill the recorded pid, it goes
\* on to remove the record, whether the kill succeeded or threw.
C4_RecordClearedAfterKillAttempt ==
    [][killAttempts' > killAttempts =>
          RemovesQueued(dbQueue') = RemovesQueued(dbQueue) + 1]_vars

Outcome(d) == [state |-> d.state, value |-> d.value]

\* C5: the deferred settles at most once and never changes afterwards; it
\* is rejected with the pre-flight message as soon as a startLocal call
\* fails pre-flight, it is resolved with the success message only after a
\* spawn and the firing of a grace timer, and every waiter is handed the
\* one outcome it holds.
C5_ReadinessSettlesOnce ==
    /\ [](/\ deferred.settled <= 1
          /\ deferred.state = "pending" <=> deferred.settled = 0
          /\ PreflightFailed =>
                /\ deferred.state = "rejected"
                /\ deferred.value.code \in {1, 2}
                /\ deferred.value.code = 1 <=> osPlatform \notin SupportedPlatforms
          /\ deferred.state = "rejected" => PreflightFailed
          /\ deferred.state = "resolved" =>
                /\ deferred.value = MsgDaemonReady
                /\ spawns > 0 /\ graceFired > 0
          /\ \A o \in observed : o = Outcome(deferred))
    /\ [][deferred.state # "pending" => deferred' = deferred]_vars

\* both grace timers have fired, so resolve was called twice, and a waiter
\* has been handed the outcome
C5_Witness ==
    /\ deferred.state = "resolved" /\ graceFired = 2
    /\ observed = {Outcome(deferred)}

\* C6: once the window has closed after a start that launched the daemon,
\* the daemon was sent the termination signal and its exit was observed by
\* the supervisor before the window closed.
C6_CloseWaitsForDaemonExit ==
    (winClosed /\ closeListeners > 0 /\ daemon.pid # NoPid) =>
        /\ procs[daemon.pid] \in {"signalled", "exited"}
        /\ daemon.pid \in exitObserved

\* the launch of some child process failed
SpawnFailed == \E k \in 1..Len(children) : children[k] = NoPid

\* C7: when the launch fails after a successful pre-flight, the session
\* ends up with a failure outcome whose code is neither the success code
\* nor a pre-flight code: once the timers of the failed start have run,
\* such a message has been broadcast or settles the deferred.
C7_SpawnFailurePropagates ==
    (SpawnFailed /\ graceTimers = 0) =>
        \/ /\ deferred.state = "rejected"
           /\ deferred.value.code \notin {0, 1, 2}
        \/ \E i \in 1..Len(bootstrapped) : bootstrapped[i] \notin {0, 1, 2}

\* C8: once pre-flight has passed and the spawn call has returned, the
\* deferred is eventually resolved with the success message, unless the
\* window closes first; nothing else (a daemon that is silent, has exited
\* or never launched, a kill that threw, a failed store operation, a failed
\* chmod) prevents it.
C8_ReadinessEventuallyResolves ==
    (PreflightPassed /\ spawns > 0) ~>
        \/ /\ deferred.state = "resolved"
           /\ deferred.value = Message(TRUE, 0, <<"Daemon Ready">>)
        \/ winClosed

\* readiness resolved although the daemon never launched, the kill of the
\* stale pid threw, a store operation failed and chmod changed nothing
C8_Witness ==
    /\ deferred.state = "resolved" /\ ~winClosed
    /\ daemon.spawned /\ daemon.pid = NoPid
    /\ LogKillError \in log /\ ioFailures > 0
    /\ ~execPerm /\ chmodPending = 0 /\ dbQueue = <<>>

\* C9: after a successful pre-flight, for as long as the window is open,
\* another activity event is always eventually published, with no
\* assumption that the daemon ever writes (only the timers are fair), and
\* every data event of a daemon's standard output publishes one at once.
C9_ActivityKeepsTicking ==
    /\ \A n \in 0..(ActivityWrap - 1) :
          (PreflightPassed /\ activity = n) ~> (activity # n \/ winClosed)
    /\ [][(\E k \in 1..Len(children) : OnStdoutData(k))
             => activity' = (activity + 1) % ActivityWrap]_vars

\* an event has been published in a session whose daemon never launched,
\* so that no output was ever written
C9_Witness ==
    /\ activity = 1 /\ starts = 1 /\ children = <<NoPid>> /\ ~winClosed

\* C10: on a supported platform path resolution yields the table entry of
\* the architecture when the table has one and the table's default entry
\* otherwise; an architecture the table lacks is no error (the path is
\* set, and pre-flight passes when that file is on the disk).
C10_PathResolution ==
    (starts > 0 /\ osPlatform \in SupportedPlatforms) =>
        LET table == daemonMap[osPlatform]
        IN  /\ daemonFilePath # NullPath
            /\ osArch \in DOMAIN table => daemonFilePath = table[osArch]
            /\ osArch \notin DOMAIN table => daemonFilePath = table["default"]
            /\ (osPlatform = "darwin" /\ osArch = "arm64")
                  => daemonFilePath = "daemons/reddcoind-mac-32"
            /\ (osPlatform = "linux" /\ osArch = "x64")
                  => daemonFilePath = "daemons/reddcoind-linux64"
            /\ daemonFilePath \in fsFiles => deferred.state # "rejected"

\* darwin/arm64 has resolved to the default entry and passed pre-flight
C10_Witness ==
    /\ starts > 0 /\ osPlatform = "darwin" /\ osArch = "arm64"
    /\ daemonFilePath = "daemons/reddcoind-mac-32"
    /\ spawns > 0

\* the codes of the pre-flight failures broadcast so far
FailureCodes == {bootstrapped[i] : i \in 1..Len(bootstrapped)} \ {0}

\* C11: runPreChecks looks at the platform first, resolves the path next
\* and checks the disk last, stopping at the first failure: code 1 exactly
\* when the platform is not in the table (and then no path is resolved,
\* whatever the disk holds), code 2 exactly when the platform is supported
\* and the resolved path is not on the disk, and otherwise success, with
\* no failure code and the start going on to the spawn.
C11_PreChecksOrderAndCodes ==
    starts > 0 =>
        LET supported == osPlatform \in DOMAIN daemonMap
            resolved == daemonFilePath # NullPath
            onDisk == daemonFilePath \in fsFiles
        IN  /\ ~supported =>
                  /\ FailureCodes = {1} /\ deferred.value.code = 1
                  /\ ~resolved /\ spawns = 0
            /\ (supported /\ ~onDisk) =>
                  /\ FailureCodes = {2} /\ deferred.value.code = 2
                  /\ resolved /\ spawns = 0
            /\ (supported /\ onDisk) =>
                  /\ FailureCodes = {} /\ deferred.state # "rejected"
                  /\ resolved /\ spawns = starts
            /\ 1 \in FailureCodes <=> ~supported
            /\ 2 \in FailureCodes <=> (supported /\ ~onDisk)

\* an unsupported platform was rejected with code 1 although every
\* executable, the Windows one included, is on the disk
C11_Witness ==
    /\ starts = 2 /\ osPlatform = "sunos" /\ fsFiles = AllPaths
    /\ bootstrapped = <<1, 1>> /\ daemonFilePath = NullPath

\* the daemons this supervisor spawned that are alive
LiveDaemons == {children[k] : k \in 1..Len(children)} \cap {p \in Pids : Running(p)}

\* C12: whatever the sequence of startLocal calls, at most one daemon
\* process spawned by this supervisor is alive at a time.
C12_AtMostOneLiveDaemon ==
    Cardinality(LiveDaemons) <= 1

\* C13: the store never holds more than one record, however the lookups
\* and writes of saveDaemonPid interleave, store failures and failed
\* launches left aside.
C13_AtMostOneRecord ==
    (ioFailures = 0 /\ ~SpawnFailed) => Cardinality(store) <= 1

\* C14: no activity event, from the daemon's standard output or from the
\* repeating timer, is published before the deferred has resolved.
C14_NoActivityBeforeReady ==
    [][activity' # activity => deferred.state = "resolved"]_vars

\* C14, amended: the repeating timer publishes no activity event before
\* the deferred has resolved; an event published earlier comes from the
\* standard output of a running daemon, whose listener is attached at the
\* spawn.
C14_TimerActivityAfterReady ==
    /\ [][IntervalTick => deferred.state = "resolved"]_vars
    /\ [][(activity' # activity /\ deferred.state # "resolved")
             => \E k \in 1..Len(children) : OnStdoutData(k)]_vars

\* the timer has published an event after readiness, in a session whose
\* daemon never launched and so never wrote
C14_Witness ==
    /\ activity = 1 /\ children = <<NoPid>> /\ graceFired = 1
    /\ deferred.state = "resolved" /\ intervals = 1

\* C15: a standard-error event of the daemon and the exit of the daemon
\* are only logged: the step in which either is handled, and the exit
\* itself, leave the deferred, the store and its pending operations and
\* both timers as they are, and spawn nothing.
C15_StderrAndExitOnlyLog ==
    [][(\/ \E k \in 1..Len(children) : OnStderrError(k) \/ OnDaemonClose(k)
        \/ log' \ log = {LogStderr}
        \/ exitObserved' # exitObserved
        \/ \E pid \in Pids : procs[pid] # "exited" /\ procs'[pid] = "exited")
       => /\ deferred' = deferred /\ bootstrapped' = bootstrapped
          /\ store' = store /\ dbQueue' = dbQueue /\ nextId' = nextId
          /\ intervals' = intervals /\ graceTimers' = graceTimers
          /\ spawns' = spawns /\ children' = children /\ daemon' = daemon
          /\ \A pid \in Pids : procs'[pid] = "running" => procs[pid] = "running"]_vars

\* a standard-error event was logged and the exit of the launched daemon
\* observed while the record of its pid, the resolved deferred and the
\* repeating timer are all still there
C15_Witness ==
    /\ LogStderr \in log /\ daemon.pid \in exitObserved /\ ~winClosed
    /\ store = {[id |-> 1, pid |-> daemon.pid]}
    /\ deferred.state = "resolved" /\ intervals = 1 /\ spawns = 1

NewlySignalled == {p \in Pids : procs[p] = "running" /\ procs'[p] = "signalled"}

C18_AppRefreshesOnlyWhenReady ==
    /\ []((app.running \/ app.fetched \/ app.listening) =>
              /\ deferred.state = "resolved"
              /\ deferred.value.result /\ deferred.value.code = 0)
    /\ [](deferred.state = "rejected" => app = NewAppCtrl)
    /\ [][deferred.state # "resolved" => app' = app]_vars

\* the controller was called back after readiness and an activity event
\* has been published
C18_Witness ==
    /\ app.running /\ app.fetched /\ app.listening
    /\ observed = {Outcome(deferred)} /\ deferred.state = "resolved"
    /\ activity = 1 /\ ~winClosed

\* C19: the window's close handler leaves the store as it is, and after a
\* close that sent the termination signal to the daemon of the session
\* (one startLocal call, every store operation run, none failed) the
\* store still holds the record with that daemon's pid, for the next
\* session to find.
C19_RecordSurvivesClose ==
    /\ [][(winClosed' /\ ~winClosed) =>
            (store' = store /\ dbQueue' = dbQueue /\ nextId' = nextId)]_vars
    /\ []((/\ winClosed /\ closeListeners > 0 /\ starts = 1
            /\ daemon.pid # NoPid /\ procs[daemon.pid] = "signalled"
            /\ dbQueue = <<>> /\ ioFailures = 0)
           => \E r \in store : r.pid = daemon.pid)

====
